---- MODULE Spec2Model ----
(***************************************************************************)
(* EDUR PumpVision (src/app.py): a Streamlit dashboard over a synthetic    *)
(* pump fleet.  The model covers the generators (generate_pump_data,       *)
(* generate_alarm_data, generate_historical_data), the st.cache_data memo  *)
(* around them, the once-per-session initialisation of st.session_state    *)
(* and the sidebar search / type filter that yields filtered_data.         *)
(*                                                                         *)
(* Text that the program inspects character by character (pump ids,        *)
(* locations, the search term) is a sequence of one-character strings;     *)
(* text that is only compared for equality (pump types, statuses) is a     *)
(* plain string.  Time is counted in whole hours.  Real-valued sensor      *)
(* fields (druck, temperatur, vibration, strom, durchfluss,                *)
(* betriebsstunden) are read by no modelled operation and are left out of  *)
(* the pump record.                                                        *)
(***************************************************************************)
EXTENDS Integers, Sequences, FiniteSets, TLC

VARIABLES
    now,            \* wall clock (datetime.now()), in whole hours
    cache,          \* st.cache_data memo of the three generators
    session_state,  \* st.session_state: pump_data, alarm_data and the widget values
    filtered_data,  \* filtered_data as the last script run left it
    request,        \* the arguments of the call of generate_historical_data made by the last step
    historical_data,\* what that call returned
    widgets,        \* the widget values of the last script run (page, search, filter, selectbox)
    raised,         \* the exception that ended the last script run or call, or NoError
    executed,       \* the generators whose body ran during the last step
    rec,            \* the record the generator loop body built last (slot specifications)
    view,           \* what the last script run displayed: the st.success notice of a pressed
                    \* button and the table and metrics of Wartungsplanung
    pc              \* "rerun" while a widget change waits for its script run, else "idle"

vars == <<now, cache, session_state, widgets, filtered_data, request, historical_data, raised,
          executed, rec, view, pc>>

\* A value that may be missing (a key of st.session_state, a memo entry, a
\* result that an exception prevented) is a sequence of at most one element;
\* a missing pump id is the empty text.
None == <<>>
Some(v) == <<v>>
NoError == "none"
ReError == "re.error"
ValueError == "ValueError"
IndexError == "IndexError"

\* ------------------------------------------------------------------ bounds

\* Whole fleets and alarm sets are explored for the draw sequences 0..MaxSeed.
MaxSeed == 1
\* Search terms of up to MaxTermLen characters over TermChars.
MaxTermLen == 2
\* The clock runs from 0 to MaxClock hours.
MaxClock == 2
\* The selectbox is moved to one of its first MaxSelect options.
MaxSelect == 2
\* Script runs and calls that would grow the memo of generate_historical_data
\* beyond MaxHistEntries entries are not explored.
MaxHistEntries == 1

\* The status lambda of Wartungsplanung is applied to the due dates
\* -MaxDue .. MaxDue.
MaxDue == 60

\* ------------------------------------------------------- Python primitives

\* A range that includes its stop value, which Python's range does not.
PyRangeInclusive(a, b) == a .. b

\* range(a, b): a, a+1, ..., b-1.
PyRange(a, b) == a .. (b - 1)

\* A closed interval low <= n <= high, as random.randint of the standard
\* library draws from; numpy's does not.
randint_closed(low, high) == low .. high

\* np.random.randint(low, high): the integers it can return, low <= n < high.
randint(low, high) == low .. (high - 1)

Digits == <<"0", "1", "2", "3", "4", "5", "6", "7", "8", "9">>

\* str(n) for n >= 0: decimal digits without padding.
RECURSIVE DecStr(_)
DecStr(n) == IF n < 10 THEN <<Digits[n + 1]>>
             ELSE Append(DecStr(n \div 10), Digits[(n % 10) + 1])

\* f"{n:03d}": zero-padded to at least three digits.
Pad3(n) == IF Len(DecStr(n)) >= 3 THEN DecStr(n)
           ELSE [k \in 1 .. (3 - Len(DecStr(n))) |-> "0"] \o DecStr(n)

UpperCase == <<"A", "B", "C", "D", "E", "F", "G", "H", "I", "J", "K", "L", "M",
               "N", "O", "P", "Q", "R", "S", "T", "U", "V", "W", "X", "Y", "Z">>
LowerCase == <<"a", "b", "c", "d", "e", "f", "g", "h", "i", "j", "k", "l", "m",
               "n", "o", "p", "q", "r", "s", "t", "u", "v", "w", "x", "y", "z">>

\* Case folding of one character as re.IGNORECASE compares it.
LowerOf == [c \in {UpperCase[k] : k \in 1 .. Len(UpperCase)} |->
               LowerCase[CHOOSE k \in 1 .. Len(UpperCase) : UpperCase[k] = c]]
Lower(c) == IF c \in DOMAIN LowerOf THEN LowerOf[c] ELSE c

Range(s) == {s[k] : k \in 1 .. Len(s)}

\* ------------------------------------------------- re / Series.str.contains

\* The characters search terms are built from.  "1", "h", "H" and " " are
\* ordinary characters; ".", "(", "[", "*" and "\\" have a meaning in a
\* pattern.  After a backslash, "1" is a group reference and "h", "H" are
\* unknown escapes.
TermChars == {"1", "h", "H", " ", ".", "(", "[", "*", "\\"}

GroupRefDigits == {"1", "2", "3", "4", "5", "6", "7", "8", "9"}
\* ASCII letters of the model's texts that are no escape sequence of re.
BadEscapeLetters == {"h", "H", "l", "e", "P", "p"}
\* "\a" is the BEL character, which no pump id or location holds.
ControlEscapes == {"a"}

Lit(c) == [kind |-> "lit", ch |-> c, star |-> FALSE]
AnyChar == [kind |-> "any", ch |-> ".", star |-> FALSE]
NoChar == [kind |-> "never", ch |-> "", star |-> FALSE]

\* re.compile(pat): the sequence of items of the pattern, or ReError.
\* An unescaped "(" or "[" is never closed (no ")" or "]" in TermChars).
RECURSIVE sre_parse(_, _, _)
sre_parse(pat, k, items) ==
    IF k > Len(pat) THEN items
    ELSE LET c == pat[k] IN
         CASE c = "\\" ->
                IF k = Len(pat) THEN ReError                 \* bad escape (end of pattern)
                ELSE LET e == pat[k + 1] IN
                     IF e \in GroupRefDigits THEN ReError    \* invalid group reference
                     ELSE IF e \in BadEscapeLetters THEN ReError   \* bad escape
                     ELSE IF e \in ControlEscapes
                          THEN sre_parse(pat, k + 2, Append(items, NoChar))
                     ELSE sre_parse(pat, k + 2, Append(items, Lit(e)))
           [] c = "(" -> ReError                             \* missing ), unterminated subpattern
           [] c = "[" -> ReError                             \* unterminated character set
           [] c = "*" ->
                IF items = <<>> THEN ReError                 \* nothing to repeat
                ELSE IF items[Len(items)].star THEN ReError  \* multiple repeat
                ELSE sre_parse(pat, k + 1,
                        [items EXCEPT ![Len(items)].star = TRUE])
           [] c = "." -> sre_parse(pat, k + 1, Append(items, AnyChar))
           [] OTHER -> sre_parse(pat, k + 1, Append(items, Lit(c)))

re_compile(pat) == sre_parse(pat, 1, <<>>)

Accepts(item, ch) ==
    \/ item.kind = "any"
    \/ item.kind = "lit" /\ Lower(item.ch) = Lower(ch)

\* The items from k on match s starting at position pos (re.IGNORECASE).
RECURSIVE MatchAt(_, _, _, _)
MatchAt(items, k, s, pos) ==
    IF k > Len(items) THEN TRUE
    ELSE IF items[k].star
         THEN \/ MatchAt(items, k + 1, s, pos)
              \/ /\ pos <= Len(s)
                 /\ Accepts(items[k], s[pos])
                 /\ MatchAt(items, k, s, pos + 1)
         ELSE /\ pos <= Len(s)
              /\ Accepts(items[k], s[pos])
              /\ MatchAt(items, k + 1, s, pos + 1)

\* regex.search(s) for a compiled pattern.
re_search(items, s) == \E pos \in 1 .. (Len(s) + 1) : MatchAt(items, 1, s, pos)

\* pat occurs in s as a literal substring, compared case-insensitively
\* (what str.contains computes with regex=False).
str_contains_literal(s, pat) ==
    \E pos \in 0 .. (Len(s) - Len(pat)) :
        \A k \in 1 .. Len(pat) : Lower(s[pos + k]) = Lower(pat[k])

\* Series.str.contains(pat, case=False) on one value (regex=True is the default).
\* Only evaluated for patterns that compile.
str_contains(s, pat) == \E items \in {re_compile(pat)} : re_search(items, s)

\* ------------------------------------------------------------ generators

pump_types == <<"Exzenterschneckenpumpe", "Kreiselpumpe", "Verdrängerpumpe">>
locations == << <<"H", "a", "l", "l", "e", " ", "A">>,
                <<"H", "a", "l", "l", "e", " ", "B">>,
                <<"H", "a", "l", "l", "e", " ", "C">>,
                <<"A", "u", "ß", "e", "n", "b", "e", "r", "e", "i", "c", "h">> >>
pump_status == <<"OK", "Warnung", "Kritisch">>
alarm_types == <<"Druckabfall", "Überhitzung", "Erhöhte Vibration", "Stromspitze",
                 "Durchfluss niedrig">>
priorities == <<"Hoch", "Mittel", "Niedrig">>
alarm_status == <<"Offen", "Quittiert", "Behoben">>

\* What np.random yields for one pump (the real-valued draws are left out).
PumpDraws == [status : Range(pump_status), typ : Range(pump_types),
              standort : Range(locations), naechste_wartung : randint(1, 90)]

\* What np.random yields for one alarm; hours is the argument of timedelta.
AlarmDraws == [prioritaet : Range(priorities), pumpe : randint(1, 11),
               typ : Range(alarm_types), hours : randint(1, 48),
               status : Range(alarm_status)]

\* The dict appended for loop index i with the draws d.
PumpRecord(i, d) ==
    [id |-> <<"P", "-">> \o Pad3(i),
     name |-> <<"P", "u", "m", "p", "e", " ">> \o DecStr(i),
     typ |-> d.typ,
     standort |-> d.standort,
     status |-> d.status,
     naechste_wartung |-> d.naechste_wartung]

\* An alarm record whose recommendation follows its status instead of its priority.
AlarmRecord_byStatus(i, d, t) ==
    [id |-> <<"A", "-">> \o Pad3(i + 1),
     pumpe |-> <<"P", "-">> \o Pad3(d.pumpe),
     typ |-> d.typ,
     prioritaet |-> d.prioritaet,
     zeit |-> t - d.hours,
     status |-> d.status,
     empfehlung |-> IF d.status = "Offen"
                    THEN "Sofortige Inspektion erforderlich"
                    ELSE "Überwachung fortsetzen"]

\* An alarm record stamped after its generation instead of before it.
AlarmRecord_ahead(i, d, t) ==
    [id |-> <<"A", "-">> \o Pad3(i + 1),
     pumpe |-> <<"P", "-">> \o Pad3(d.pumpe),
     typ |-> d.typ,
     prioritaet |-> d.prioritaet,
     zeit |-> t + d.hours,
     status |-> d.status,
     empfehlung |-> IF d.prioritaet = "Hoch"
                    THEN "Sofortige Inspektion erforderlich"
                    ELSE "Überwachung fortsetzen"]

\* The dict appended for loop index i (0-based) with the draws d at time t.
AlarmRecord(i, d, t) ==
    [id |-> <<"A", "-">> \o Pad3(i + 1),
     pumpe |-> <<"P", "-">> \o Pad3(d.pumpe),
     typ |-> d.typ,
     prioritaet |-> d.prioritaet,
     zeit |-> t - d.hours,
     status |-> d.status,
     empfehlung |-> IF d.prioritaet = "Hoch"
                    THEN "Sofortige Inspektion erforderlich"
                    ELSE "Überwachung fortsetzen"]

\* The body of generate_pump_data: draws[i] are the draws of iteration i.
PumpLoop == PyRange(1, 11)
generate_pump_data(draws) ==
    LET idx == PumpLoop
        n == Cardinality(idx)
        lo == CHOOSE a \in idx : \A b \in idx : a <= b
    IN  [k \in 1 .. n |-> PumpRecord(lo + k - 1, draws[lo + k - 1])]

\* The body of generate_alarm_data, called at time t.
AlarmLoop == PyRange(0, 8)
generate_alarm_data(draws, t) ==
    LET idx == AlarmLoop
        n == Cardinality(idx)
        lo == CHOOSE a \in idx : \A b \in idx : a <= b
    IN  [k \in 1 .. n |-> AlarmRecord(lo + k - 1, draws[lo + k - 1], t)]

\* The n-th element (from 0, wrapping) of a finite set of integers.
NthOf(S, n) == CHOOSE e \in S : Cardinality({x \in S : x < e}) = n % Cardinality(S)
Pick(s, n) == s[(n % Len(s)) + 1]

\* The draw sequences explored for whole data sets, one per seed: every
\* draw is a member of the generator's own range (PumpDraws, AlarmDraws).
\* Seed 0 varies type and location from pump to pump and holds a pump due in
\* 7 days; seed 1 holds the extreme due dates; seed 2 is a single-type fleet.
Seeds == 0 .. MaxSeed
PumpStream(seed) ==
    [i \in 0 .. 11 |->
        [status |-> Pick(pump_status, seed + i),
         typ |-> Pick(pump_types, i * (seed + 1) + seed),
         standort |-> Pick(locations, i * (seed + 1)),
         naechste_wartung |-> NthOf(randint(1, 90), 6 * i + 82 * seed)]]
AlarmStream(seed) ==
    [i \in 0 .. 11 |->
        [prioritaet |-> Pick(priorities, seed + i),
         pumpe |-> NthOf(randint(1, 11), i * (seed + 2)),
         typ |-> Pick(alarm_types, i + seed),
         hours |-> NthOf(randint(1, 48), 46 + 7 * i + seed),
         status |-> Pick(alarm_status, i * (seed + 1))]]

\* n hourly stamps that end one hour before t.
date_range_early(t, n) == [k \in 1 .. n |-> t - (n - k) - 1]

\* pd.date_range(end=t, periods=n, freq='H') for n >= 0: n hourly stamps ending at t.
date_range(t, n) == [k \in 1 .. n |-> t - (n - k)]

\* The two outcomes explored for the np.random.uniform columns of one call.
HistDraws == {0, 1}
\* A negative number of periods: builds of pandas differ, one raises from
\* date_range, another returns an empty index.
NegativePeriods == {"raises", "empty"}

\* The body of generate_historical_data(pump_id, days) run at time t: u is the
\* draw of the random columns.  Druck stands for the four random columns.
generate_historical_data(pump_id, days, t, u, neg) ==
    LET periods == days * 24 IN
    IF periods < 0 /\ neg = "raises"
    THEN [raised |-> ValueError, frame |-> None]
    ELSE LET dates == IF periods < 0 THEN <<>> ELSE date_range(t, periods)
         IN  [raised |-> NoError,
              frame |-> Some([Zeit |-> dates,
                              Druck |-> [k \in 1 .. Len(dates) |-> u]])]

\* ------------------------------------------------------------ st.cache_data

EmptyCache == [pump |-> None, alarm |-> None, hist |-> <<>>]

\* @st.cache_data on a function without arguments: the stored value if there
\* is one, else the value the body returns now.
CacheMiss(stored) == stored = None
cache_data(stored, fresh) == IF CacheMiss(stored) THEN fresh ELSE stored[1]

\* @st.cache_data on generate_historical_data: the key is (pump_id, days).
HistKey(pump_id, days) == <<pump_id, days>>
\* A function without memo misses on every call.
HistHit_never(key) == FALSE
\* The memo holds a result for the key.

HistHit(key) == key \in DOMAIN cache.hist

\* The cached call: what it returns, whether the body ran, and the memo after it.
\* An exception is not stored.
CallHistorical(pump_id, days, u, neg) ==
    LET key == HistKey(pump_id, days)
        out == generate_historical_data(pump_id, days, now, u, neg)
    IN  IF HistHit(key)
        THEN [raised |-> NoError, frame |-> Some(cache.hist[key]), ran |-> FALSE,
              hist |-> cache.hist]
        ELSE [raised |-> out.raised, frame |-> out.frame, ran |-> TRUE,
              hist |-> IF out.raised # NoError THEN cache.hist
                       ELSE [k \in DOMAIN cache.hist \cup {key} |->
                                IF k = key THEN out.frame[1] ELSE cache.hist[k]]]

\* ------------------------------------------------------- filtering (279-287)

\* filtered_data[id.str.contains(term, case=False) | standort.str.contains(...)]
SearchRows(data, term) ==
    SelectSeq(data, LAMBDA r : str_contains(r.id, term) \/ str_contains(r.standort, term))

\* filtered_data[filtered_data['typ'].isin(pump_filter)]
TypeRows(data, pump_filter) == SelectSeq(data, LAMBDA r : r.typ \in pump_filter)

\* Lines 279-287: the copy of pump_data, narrowed by the search term when it is
\* non-empty and then by the type filter when it is non-empty.  When the term
\* does not compile, str.contains raises and filtered_data stays the copy.
Filtered(pump_data, term, pump_filter) ==
    IF term # <<>> /\ re_compile(term) = ReError
    THEN [raised |-> ReError, data |-> pump_data]
    ELSE LET searched == IF term # <<>> THEN SearchRows(pump_data, term) ELSE pump_data
         IN  [raised |-> NoError,
              data |-> IF pump_filter # {} THEN TypeRows(searched, pump_filter)
                       ELSE searched]

\* pump_data['typ'].unique(): the options of the type multiselect.
TypeOptions(pump_data) == {r.typ : r \in Range(pump_data)}
\* filtered_data['id'].tolist(): the options of the pump selectbox.
IdOptions(data) == [k \in 1 .. Len(data) |-> data[k].id]

\* ------------------------------------------------------------ the script

Dashboard == "Dashboard"
Pumpendetails == "Pumpendetails"
Wartungsplanung == "Wartungsplanung"
Pages == {Dashboard, Pumpendetails, "Alarmmanagement", "Berichte & Analysen",
          Wartungsplanung}

\* Widget values of a first run: first radio entry, empty text, nothing selected.
DefaultWidgets == [page |-> Dashboard, search_term |-> <<>>, pump_filter |-> {},
                   selected_pump |-> None]

\* An initialisation that is not guarded by the session key.
NotInSession_always(slot) == TRUE
\* 'pump_data' not in st.session_state (lines 251, 253).

NotInSession(slot) == slot = None

\* The days argument of the call in Pumpendetails (line 465).
DetailDays == 7

\* st.selectbox (line 408): no option gives None; the stored choice is kept
\* while the widget is the same one (it was drawn by the last run, with the
\* same options); otherwise the first option is selected.
Selectbox(options, choice, drawnBefore, optionsBefore) ==
    IF options = <<>> THEN None
    ELSE IF drawnBefore /\ optionsBefore = options /\ choice \in Range(options)
         THEN choice
         ELSE options[1]

\* Nothing displayed yet.
NoView == [notice |-> None, maintenance |-> None]

\* The "Alarm quittieren" button of alarm a_id is drawn (lines 492-503): the
\* alarm belongs to the selected pump and its status is 'Offen'.  pressed is
\* the id of the pressed button's alarm, or the empty text.
Quittierbar(alarm_data, selected_pump, pressed) ==
    /\ selected_pump # None /\ pressed # None
    /\ \E a \in Range(alarm_data) :
          a.id = pressed /\ a.pumpe = selected_pump /\ a.status = "Offen"

\* A handler that stores the acknowledgement in the alarm's status.
AlarmQuittieren_stored(alarm_data, a_id) ==
    [k \in 1 .. Len(alarm_data) |->
        IF alarm_data[k].id = a_id
        THEN [alarm_data[k] EXCEPT !.status = "Quittiert"]
        ELSE alarm_data[k]]

\* The alarm data after the body of `if st.button("Alarm quittieren", ...)`
\* (lines 503-504): st.success only, the data are not written.
AlarmQuittieren(alarm_data, a_id) == alarm_data

\* A status that counts the seventh day as urgent, as between(0, 7) does.
MaintenanceStatus_through7(x) ==
    IF x < 0 THEN "Überfällig" ELSE IF x <= 7 THEN "Dringend" ELSE "Geplant"

\* '🔴 Überfällig' if x < 0 else '🟡 Dringend' if x < 7 else '🟢 Geplant' (line 707);
\* the labels are written without their coloured dot.
MaintenanceStatus(x) ==
    IF x < 0 THEN "Überfällig" ELSE IF x < 7 THEN "Dringend" ELSE "Geplant"

\* Series.between(left, right): inclusive on both sides.
between(x, left, right) == left <= x /\ x <= right

\* sort_values('naechste_wartung') (line 705): ascending; rows with equal keys
\* keep their order (ten rows are sorted by insertion).
RECURSIVE InsertByDue(_, _)
InsertByDue(sorted, r) ==
    IF sorted = <<>> THEN <<r>>
    ELSE IF sorted[Len(sorted)].naechste_wartung <= r.naechste_wartung
         THEN Append(sorted, r)
         ELSE Append(InsertByDue(SubSeq(sorted, 1, Len(sorted) - 1), r),
                     sorted[Len(sorted)])
RECURSIVE sort_values(_)
sort_values(data) ==
    IF data = <<>> THEN <<>>
    ELSE InsertByDue(sort_values(SubSeq(data, 1, Len(data) - 1)), data[Len(data)])

\* upcoming_maintenance['Status'] = ...apply(lambda ...) (lines 706-708).
WithStatus(sorted) ==
    [k \in 1 .. Len(sorted) |->
        [id |-> sorted[k].id,
         naechste_wartung |-> sorted[k].naechste_wartung,
         Status |-> MaintenanceStatus(sorted[k].naechste_wartung)]]

\* The table and the three metrics of Wartungsplanung (lines 704-725).
WartungsplanungView(data) ==
       [table |-> WithStatus(sort_values(data)),
        overdue |-> Len(SelectSeq(data, LAMBDA r : r.naechste_wartung < 0)),
        urgent |-> Len(SelectSeq(data, LAMBDA r : between(r.naechste_wartung, 0, 7))),
        planned |-> Len(SelectSeq(data, LAMBDA r : r.naechste_wartung > 7))]

\* One run of the script, top to bottom, with the widget values page, term,
\* pump_filter and the selectbox choice, and with the "Alarm quittieren" button
\* that triggered the run (pressed, None for any other trigger): session
\* initialisation (250-254), filtering (279-287) and the page (289-784).  Only
\* Pumpendetails touches state beyond the session keys: it calls
\* generate_historical_data.
RunScript(page, term, pump_filter, choice, pressed) ==
    LET callsPump == NotInSession(session_state.pump_data)
        callsAlarm == NotInSession(session_state.alarm_data)
        ranPump == callsPump /\ CacheMiss(cache.pump)
        ranAlarm == callsAlarm /\ CacheMiss(cache.alarm)
        drawnBefore == /\ widgets.page = Pumpendetails
                       /\ raised \in {NoError, IndexError}
                       /\ session_state.pump_data # None
    IN
    \E seed \in (IF ranPump \/ ranAlarm THEN Seeds ELSE {0}) :
    \E pump_data \in {IF callsPump
                      THEN cache_data(cache.pump, generate_pump_data(PumpStream(seed)))
                      ELSE session_state.pump_data[1]} :
    \E alarm_data \in {IF callsAlarm
                       THEN cache_data(cache.alarm,
                                       generate_alarm_data(AlarmStream(seed), now))
                       ELSE session_state.alarm_data[1]} :
    \E f \in {Filtered(pump_data, term, pump_filter)} :
    \E selected_pump \in {IF f.raised = NoError /\ page = Pumpendetails
                          THEN Selectbox(IdOptions(f.data), choice, drawnBefore,
                                         IdOptions(filtered_data))
                          ELSE None} :
    \E u \in (IF selected_pump # None /\ ~HistHit(HistKey(selected_pump, DetailDays))
              THEN HistDraws ELSE {0}) :
    \E h \in {IF selected_pump # None
              THEN CallHistorical(selected_pump, DetailDays, u, "raises")
              ELSE [raised |-> NoError, frame |-> None, ran |-> FALSE,
                    hist |-> cache.hist]} :
        /\ Cardinality(DOMAIN h.hist) <= MaxHistEntries
        /\ session_state' =
              [pump_data |-> Some(pump_data),
               alarm_data |-> Some(IF Quittierbar(alarm_data, selected_pump, pressed)
                                   THEN AlarmQuittieren(alarm_data, pressed)
                                   ELSE alarm_data)]
        /\ cache' = [pump |-> IF callsPump THEN Some(pump_data) ELSE cache.pump,
                     alarm |-> IF callsAlarm THEN Some(alarm_data) ELSE cache.alarm,
                     hist |-> h.hist]
        /\ widgets' = [page |-> page, search_term |-> term,
                       pump_filter |-> pump_filter,
                       selected_pump |-> selected_pump]
        /\ filtered_data' = f.data
        /\ request' = IF selected_pump # None
                      THEN Some([pump_id |-> selected_pump, days |-> DetailDays])
                      ELSE None
        /\ historical_data' = h.frame
        /\ raised' = IF f.raised # NoError THEN f.raised
                     ELSE IF page = Pumpendetails /\ selected_pump = None
                          THEN IndexError       \* .iloc[0] of no row (line 414)
                          ELSE NoError
        /\ executed' = (IF ranPump THEN {"pump"} ELSE {})
                       \cup (IF ranAlarm THEN {"alarm"} ELSE {})
                       \cup (IF h.ran THEN {"hist"} ELSE {})
        /\ view' = [notice |-> IF Quittierbar(alarm_data, selected_pump, pressed)
                                THEN pressed ELSE None,
                     maintenance |-> IF f.raised = NoError /\ page = Wartungsplanung
                                     THEN Some(WartungsplanungView(f.data))
                                     ELSE None]
        /\ pc' = "idle"
        /\ UNCHANGED <<now, rec>>

Loaded == session_state.pump_data # None /\ session_state.alarm_data # None

\* The search terms typed in the session specification.
HalleA == <<"h", "a", "l", "l", "e", " ", "a">>
SessionTerms == { <<>>, <<"1">>, <<"h", "h">>, <<"(">> }
\* The type selections made in the session specification: none or one type.
SessionFilters == {{}} \cup {{t} : t \in Range(pump_types)}
\* All search terms of up to n characters.
TermsUpTo(n) == UNION {[1 .. k -> TermChars] : k \in 0 .. n}

Init ==
    /\ now = 0
    /\ cache = EmptyCache
    /\ session_state = [pump_data |-> None, alarm_data |-> None]
    /\ widgets = DefaultWidgets
    /\ filtered_data = <<>>
    /\ request = None
    /\ historical_data = None
    /\ raised = NoError
    /\ executed = {}
    /\ rec = None
    /\ view = NoView
    /\ pc = "idle"

\* The browser opens the app: the first script run of the session.
Load ==
    /\ pc = "idle" /\ ~Loaded
    /\ RunScript(DefaultWidgets.page, DefaultWidgets.search_term,
                 DefaultWidgets.pump_filter, None, None)

\* The sidebar radio changes the page.
ChangePage(p) ==
    /\ pc = "idle" /\ Loaded /\ p # widgets.page
    /\ RunScript(p, widgets.search_term, widgets.pump_filter, widgets.selected_pump, None)

\* A new search term is entered.
ChangeSearch(t) ==
    /\ pc = "idle" /\ Loaded /\ t # widgets.search_term
    /\ RunScript(widgets.page, t, widgets.pump_filter, widgets.selected_pump, None)

\* The type multiselect changes.
ChangeFilter(sel) ==
    /\ pc = "idle" /\ Loaded /\ sel # widgets.pump_filter
    /\ sel \subseteq TypeOptions(session_state.pump_data[1])
    /\ RunScript(widgets.page, widgets.search_term, sel, widgets.selected_pump, None)

\* Another pump is chosen in the selectbox of Pumpendetails.
SelectPump(id) ==
    /\ pc = "idle" /\ Loaded
    /\ widgets.page = Pumpendetails /\ raised = NoError
    /\ id \in Range(IdOptions(filtered_data)) /\ id # widgets.selected_pump
    /\ RunScript(widgets.page, widgets.search_term, widgets.pump_filter, id, None)

SelectOption(k) == k <= Len(filtered_data) /\ SelectPump(filtered_data[k].id)

\* A button without a handler is pressed (lines 390-396, 530, 548, 743): the
\* script runs again with the same widget values.
PressButton ==
    /\ pc = "idle" /\ Loaded /\ raised = NoError
    /\ RunScript(widgets.page, widgets.search_term, widgets.pump_filter,
                 widgets.selected_pump, None)

\* "Alarm quittieren" is pressed for the k-th alarm, whose button the detail
\* page shows (lines 501-504): the script runs again with the button set.
PressQuittieren(k) ==
    /\ pc = "idle" /\ Loaded
    /\ widgets.page = Pumpendetails /\ raised = NoError
    /\ k <= Len(session_state.alarm_data[1])
    /\ Quittierbar(session_state.alarm_data[1], widgets.selected_pump,
                   session_state.alarm_data[1][k].id)
    /\ RunScript(widgets.page, widgets.search_term, widgets.pump_filter,
                 widgets.selected_pump, session_state.alarm_data[1][k].id)

\* "Clear cache" of the app menu empties every st.cache_data memo.
ClearCache ==
    /\ pc = "idle" /\ cache # EmptyCache
    /\ cache' = EmptyCache
    /\ executed' = {}
    /\ request' = None
    /\ UNCHANGED <<now, session_state, widgets, filtered_data, historical_data,
                   raised, rec, view, pc>>

\* An hour passes.
Tick ==
    /\ now < MaxClock
    /\ now' = now + 1
    /\ executed' = {}
    /\ request' = None
    /\ UNCHANGED <<cache, session_state, widgets, filtered_data, historical_data,
                   raised, rec, view, pc>>

Next ==
    \/ Load
    \/ \E p \in Pages : ChangePage(p)
    \/ \E t \in SessionTerms : ChangeSearch(t)
    \/ \E sel \in SessionFilters : ChangeFilter(sel)
    \/ \E k \in 1 .. MaxSelect : SelectOption(k)
    \/ PressButton
    \/ \E i \in AlarmLoop : PressQuittieren(i + 1)
    \/ ClearCache

Spec == Init /\ [][Next]_vars

\* ---------------------------------------------- filtering as a function

\* The search terms and type selections the filter is applied to.
FilterTerms == TermsUpTo(MaxTermLen) \cup {HalleA}

\* A loaded session in which a search term and a type selection have been
\* entered and the script run for them is due.
InitFilter ==
    \E seed \in Seeds :
    \E fleet \in {generate_pump_data(PumpStream(seed))} :
    \E alarms \in {generate_alarm_data(AlarmStream(seed), 0)} :
    \E t \in FilterTerms, sel \in SUBSET TypeOptions(fleet) :
        /\ now = 0
        /\ cache = [pump |-> Some(fleet), alarm |-> Some(alarms), hist |-> <<>>]
        /\ session_state = [pump_data |-> Some(fleet), alarm_data |-> Some(alarms)]
        /\ widgets = [page |-> Dashboard, search_term |-> t, pump_filter |-> sel,
                      selected_pump |-> None]
        /\ filtered_data = fleet
        /\ request = None
        /\ historical_data = None
        /\ raised = NoError
        /\ executed = {}
        /\ rec = None
        /\ view = NoView
        /\ pc = "rerun"

\* The script run that a widget change triggers.
Rerun ==
    /\ pc = "rerun"
    /\ RunScript(widgets.page, widgets.search_term, widgets.pump_filter,
                 widgets.selected_pump, None)

NextFilter == Rerun

SpecFilter == InitFilter /\ [][NextFilter]_vars

\* ----------------------------------------------- the pages on a filtered fleet

\* The pages that compute on filtered_data beyond displaying it.
FilterPages == {Pumpendetails, Wartungsplanung}

\* A loaded session on one of these pages in which a search term and a type
\* selection have been entered and the script run for them is due.
InitPage ==
    \E seed \in Seeds :
    \E fleet \in {generate_pump_data(PumpStream(seed))} :
    \E alarms \in {generate_alarm_data(AlarmStream(seed), 0)} :
    \E t \in FilterTerms, sel \in SUBSET TypeOptions(fleet), p \in FilterPages :
        /\ now = 0
        /\ cache = [pump |-> Some(fleet), alarm |-> Some(alarms), hist |-> <<>>]
        /\ session_state = [pump_data |-> Some(fleet), alarm_data |-> Some(alarms)]
        /\ widgets = [page |-> p, search_term |-> t, pump_filter |-> sel,
                      selected_pump |-> None]
        /\ filtered_data = fleet
        /\ request = None
        /\ historical_data = None
        /\ raised = NoError
        /\ executed = {}
        /\ rec = None
        /\ view = NoView
        /\ pc = "rerun"

NextPage == Rerun

SpecPage == InitPage /\ [][NextPage]_vars

\* ------------------------------------- generate_historical_data as a function

HistPumps == { <<"P", "-", "0", "0", "1">>, <<"P", "-", "0", "0", "2">> }
\* The days arguments explored: negative, zero, one day and the seven days of
\* the call in Pumpendetails.
HistDays == {0 - 1, 0, 1, DetailDays}

\* A call generate_historical_data(pump_id, days) through its memo.
CallHistory(pump_id, days) ==
    /\ pc = "idle"
    /\ \E u \in (IF HistHit(HistKey(pump_id, days)) THEN {0} ELSE HistDraws) :
       \E neg \in (IF days < 0 /\ ~HistHit(HistKey(pump_id, days))
                   THEN NegativePeriods ELSE {"raises"}) :
       \E h \in {CallHistorical(pump_id, days, u, neg)} :
            /\ Cardinality(DOMAIN h.hist) <= MaxHistEntries
            /\ cache' = [cache EXCEPT !.hist = h.hist]
            /\ request' = Some([pump_id |-> pump_id, days |-> days])
            /\ historical_data' = h.frame
            /\ raised' = h.raised
            /\ executed' = IF h.ran THEN {"hist"} ELSE {}
            /\ UNCHANGED <<now, session_state, widgets, filtered_data, rec, view, pc>>

NextHist ==
    \/ \E pump_id \in HistPumps, days \in HistDays : CallHistory(pump_id, days)
    \/ ClearCache
    \/ Tick

SpecHist == Init /\ [][NextHist]_vars

\* ------------------------------------------- the generator loops, slot by slot

\* One iteration of the loop of generate_pump_data with any draws: rec is the
\* dict being appended.
PumpSlot(i, d) ==
    /\ pc = "idle" /\ rec = None
    /\ rec' = Some(PumpRecord(i, d))
    /\ UNCHANGED <<now, cache, session_state, widgets, filtered_data, request,
                   historical_data, raised, executed, view, pc>>

\* One iteration of the loop of generate_alarm_data with any draws.
AlarmSlot(i, d) ==
    /\ pc = "idle" /\ rec = None
    /\ rec' = Some(AlarmRecord(i, d, now))
    /\ UNCHANGED <<now, cache, session_state, widgets, filtered_data, request,
                   historical_data, raised, executed, view, pc>>

\* The dict has been appended; the loop goes on.
Appended ==
    /\ rec # None
    /\ rec' = None
    /\ UNCHANGED <<now, cache, session_state, widgets, filtered_data, request,
                   historical_data, raised, executed, view, pc>>

PumpIteration == rec = None /\ \E i \in PumpLoop, d \in PumpDraws : PumpSlot(i, d)
AlarmIteration == rec = None /\ \E i \in AlarmLoop, d \in AlarmDraws : AlarmSlot(i, d)
TickBetween == rec = None /\ Tick

NextSlot ==
    \/ PumpIteration
    \/ AlarmIteration
    \/ Appended
    \/ TickBetween

SpecSlot == Init /\ [][NextSlot]_vars

\* ------------------------------- the status lambda of Wartungsplanung as a function

\* A one-row frame with any due date, waiting for the status column.
InitUrgency ==
    \E x \in (0 - MaxDue) .. MaxDue :
        /\ now = 0
        /\ cache = EmptyCache
        /\ session_state = [pump_data |-> None, alarm_data |-> None]
        /\ widgets = DefaultWidgets
        /\ filtered_data = <<>>
        /\ request = None
        /\ historical_data = None
        /\ raised = NoError
        /\ executed = {}
        /\ rec = Some([id |-> <<"P", "-", "0", "0", "1">>, naechste_wartung |-> x])
        /\ view = NoView
        /\ pc = "apply"

\* Lines 704-719 on the one-row frame: the status column and the metrics.
ApplyStatus ==
    /\ pc = "apply" /\ rec # None
    /\ view' = [notice |-> None, maintenance |-> Some(WartungsplanungView(<<rec[1]>>))]
    /\ pc' = "idle"
    /\ UNCHANGED <<now, cache, session_state, widgets, filtered_data, request,
                   historical_data, raised, executed, rec>>

NextUrgency == ApplyStatus

SpecUrgency == InitUrgency /\ [][NextUrgency]_vars

\* ================================================================== properties

ExpectedPumpIds ==
    << <<"P", "-", "0", "0", "1">>, <<"P", "-", "0", "0", "2">>,
       <<"P", "-", "0", "0", "3">>, <<"P", "-", "0", "0", "4">>,
       <<"P", "-", "0", "0", "5">>, <<"P", "-", "0", "0", "6">>,
       <<"P", "-", "0", "0", "7">>, <<"P", "-", "0", "0", "8">>,
       <<"P", "-", "0", "0", "9">>, <<"P", "-", "0", "1", "0">> >>
ExpectedAlarmIds ==
    << <<"A", "-", "0", "0", "1">>, <<"A", "-", "0", "0", "2">>,
       <<"A", "-", "0", "0", "3">>, <<"A", "-", "0", "0", "4">>,
       <<"A", "-", "0", "0", "5">>, <<"A", "-", "0", "0", "6">>,
       <<"A", "-", "0", "0", "7">>, <<"A", "-", "0", "0", "8">> >>

\* C1 (Spec): once the session holds its fleet and its alarm set, no step
\* (page change, search or type filter change, pump selection, button, cache
\* clearing) replaces either of them or runs their generators again, and the
\* fleet keeps its ten records.
C1_SessionDataHeld ==
    [][Loaded =>
          /\ session_state' = session_state
          /\ executed' \cap {"pump", "alarm"} = {}
          /\ Len(session_state'.pump_data[1]) = Len(session_state.pump_data[1])]_vars

\* C1 witness: a session that, after loading, was filtered by search term and
\* type, moved to Pumpendetails and had the memo cleared under it.
C1_Witness ==
    /\ Loaded
    /\ CacheMiss(cache.pump)
    /\ widgets.page = Pumpendetails
    /\ widgets.search_term = <<"1">>
    /\ widgets.pump_filter # {}
    /\ Len(filtered_data) \in 1 .. 9

\* C2 (Spec): whenever the session holds data, the fleet has exactly the ten
\* ids P-001..P-010 in order and the alarm set exactly the eight ids
\* A-001..A-008 in order, all pairwise distinct.
C2_TenPumpsEightAlarms ==
    Loaded =>
        /\ IdOptions(session_state.pump_data[1]) = ExpectedPumpIds
        /\ Cardinality(Range(IdOptions(session_state.pump_data[1]))) = 10
        /\ IdOptions(session_state.alarm_data[1]) = ExpectedAlarmIds
        /\ Cardinality(Range(IdOptions(session_state.alarm_data[1]))) = 8

\* C2 witness: a generated fleet whose draws differ from pump to pump.
C2_Witness ==
    /\ Loaded
    /\ "pump" \in executed /\ "alarm" \in executed
    /\ \E a, b \in Range(session_state.pump_data[1]) :
          a.typ # b.typ /\ a.standort # b.standort
    /\ \E r \in Range(session_state.pump_data[1]) : r.naechste_wartung = 89

\* The search as the specification describes it: the term is a literal substring of the
\* id or of the location, compared case-insensitively.
LiteralMatch(r, term) ==
    str_contains_literal(r.id, term) \/ str_contains_literal(r.standort, term)

\* C3 (SpecFilter): with a non-empty search term and no type selected, a
\* completed run leaves exactly the pumps whose id or location contains the
\* term as a literal substring, case-insensitively.
C3_LiteralSubstringSearch ==
    (pc = "idle" /\ raised = NoError
        /\ widgets.search_term # <<>> /\ widgets.pump_filter = {})
    => filtered_data = SelectSeq(session_state.pump_data[1],
                                 LAMBDA r : LiteralMatch(r, widgets.search_term))

\* C4 (SpecFilter): filtering never raises, whatever the search term and the
\* type selection are.
C4_FilterNeverRaises == pc = "idle" => raised = NoError

\* C5 (SpecFilter): the filtered fleet is the subsequence of the fleet of the
\* records with (term empty or term found) and (no type selected or type
\* selected).
C5_FiltersComposeWithAnd ==
    pc = "idle" =>
        /\ raised = NoError
        /\ filtered_data =
             SelectSeq(session_state.pump_data[1],
                       LAMBDA r :
                          /\ widgets.search_term = <<>>
                                \/ LiteralMatch(r, widgets.search_term)
                          /\ widgets.pump_filter = {}
                                \/ r.typ \in widgets.pump_filter)

\* C6 (SpecHist): a call with days <= 0 is rejected: it raises and returns no
\* frame.
C6_NonPositiveDaysRejected ==
    (request # None /\ request[1].days <= 0)
    => (raised # NoError /\ historical_data = None)

\* C7 as stated (SpecHist): every request runs the generator body again.
C7_EveryRequestRegenerates == request # None => "hist" \in executed

\* C7 amended (SpecHist): a request runs the generator body exactly when the
\* memo holds no entry for its (pump_id, days); otherwise it returns the stored
\* frame and leaves the memo as it is.
C7_StoredFrameReused ==
    [][request' # None =>
          LET key == HistKey(request'[1].pump_id, request'[1].days) IN
          IF key \in DOMAIN cache.hist
          THEN /\ "hist" \notin executed'
               /\ historical_data' = Some(cache.hist[key])
               /\ cache'.hist = cache.hist
          ELSE "hist" \in executed']_vars

\* C7 witness: a request answered from the memo with a non-empty frame.
C7_Witness ==
    /\ request # None
    /\ "hist" \notin executed
    /\ historical_data # None
    /\ Len(historical_data[1].Zeit) = 24 * request[1].days
    /\ request[1].days > 0

Hourly(zeit) == \A k \in 1 .. (Len(zeit) - 1) : zeit[k + 1] = zeit[k] + 1

\* C8 as stated (SpecHist): for days > 0 the call returns days*24 samples, one
\* hour apart and ascending, the last one within an hour of the call.
C8_LastSampleAtCallTime ==
    (request # None /\ request[1].days > 0) =>
        /\ raised = NoError /\ historical_data # None
        /\ Len(historical_data[1].Zeit) = request[1].days * 24
        /\ Hourly(historical_data[1].Zeit)
        /\ now - historical_data[1].Zeit[Len(historical_data[1].Zeit)] \in {0, 1}

\* C8 amended (SpecHist): for days > 0 the call returns days*24 samples, one
\* hour apart and ascending; the last one is the time at which the generator
\* body ran: the call time when this call ran it, a time not after the call
\* when the frame comes from the memo.
C8_LastSampleAtGenerationTime ==
    (request # None /\ request[1].days > 0) =>
        /\ raised = NoError /\ historical_data # None
        /\ Len(historical_data[1].Zeit) = request[1].days * 24
        /\ Len(historical_data[1].Druck) = request[1].days * 24
        /\ Hourly(historical_data[1].Zeit)
        /\ LET last == historical_data[1].Zeit[Len(historical_data[1].Zeit)] IN
           IF "hist" \in executed THEN last = now ELSE last <= now

\* C8 witness: the seven-day call of Pumpendetails run two hours after the
\* start, and a frame from the memo that ends two hours before the call.
C8_Witness ==
    /\ request # None /\ request[1].days = DetailDays
    /\ historical_data # None
    /\ Len(historical_data[1].Zeit) = 168
    /\ "hist" \notin executed
    /\ historical_data[1].Zeit[168] = now - 2

IsPumpRecord(r) == "naechste_wartung" \in DOMAIN r
IsAlarmRecord(r) == "zeit" \in DOMAIN r

\* Some iteration of the pump loop can draw v as naechste_wartung.
CanDrawWartung(v) ==
    ENABLED (\E i \in PumpLoop, d \in PumpDraws :
                PumpSlot(i, d) /\ rec'[1].naechste_wartung = v)

\* C9 as stated (SpecSlot): naechste_wartung is always in 1..90 and each of
\* 1..90 can be drawn.
C9_WartungOneToNinety ==
    /\ (rec # None /\ IsPumpRecord(rec[1])) => rec[1].naechste_wartung \in 1 .. 90
    /\ rec = None => \A v \in 1 .. 90 : CanDrawWartung(v)

\* C9 amended (SpecSlot): naechste_wartung is always in 1..89 and each of
\* 1..89 can be drawn (np.random.randint excludes its upper bound 90).
C9_WartungOneToEightyNine ==
    /\ (rec # None /\ IsPumpRecord(rec[1])) => rec[1].naechste_wartung \in 1 .. 89
    /\ rec = None => \A v \in 1 .. 89 : CanDrawWartung(v)

\* C9 witness: a pump record with the largest due date.
C9_Witness ==
    rec # None /\ IsPumpRecord(rec[1]) /\ rec[1].naechste_wartung = 89

\* Some iteration of the alarm loop can stamp the alarm h hours before now.
CanStampHoursBack(h) ==
    ENABLED (\E i \in AlarmLoop, d \in AlarmDraws :
                AlarmSlot(i, d) /\ rec'[1].zeit = now - h)

\* C10 as stated (SpecSlot): an alarm is stamped 1..48 whole hours before its
\* generation, and each of 1..48 can occur.
C10_StampOneToFortyEight ==
    /\ (rec # None /\ IsAlarmRecord(rec[1])) =>
          (rec[1].zeit < now /\ now - rec[1].zeit \in 1 .. 48)
    /\ rec = None => \A h \in 1 .. 48 : CanStampHoursBack(h)

\* C10 amended (SpecSlot): an alarm is stamped 1..47 whole hours before its
\* generation, and each of 1..47 can occur (np.random.randint excludes 48).
C10_StampOneToFortySeven ==
    /\ (rec # None /\ IsAlarmRecord(rec[1])) =>
          (rec[1].zeit < now /\ now - rec[1].zeit \in 1 .. 47)
    /\ rec = None => (\A h \in 1 .. 47 : CanStampHoursBack(h))
                     /\ ~CanStampHoursBack(0) /\ ~CanStampHoursBack(48)

\* C10 witness: an alarm generated after the clock moved, stamped 47 hours back.
C10_Witness ==
    rec # None /\ IsAlarmRecord(rec[1]) /\ now > 0 /\ rec[1].zeit = now - 47

\* C11 (Spec): a press of "Alarm quittieren" on an open alarm of the selected
\* pump changes no stored state: the session's alarms (status and priority of
\* the pressed alarm and of every other one) and fleet, the memo of both
\* generators, the widget values and the filtered fleet are the same after the
\* step as before it, and the alarms are still as one generator run made them.
C11_QuittierenChangesNothing ==
    [][(\E i \in AlarmLoop : PressQuittieren(i + 1)) =>
          /\ session_state' = session_state
          /\ cache'.pump = cache.pump /\ cache'.alarm = cache.alarm
          /\ widgets' = widgets /\ filtered_data' = filtered_data
          /\ \E seed \in Seeds :
                session_state'.alarm_data[1] = generate_alarm_data(AlarmStream(seed), now)]_vars

\* C11 witness: the run after a press showed the notice for an alarm of the
\* selected pump, and that alarm is still open.
C11_Witness ==
    /\ Loaded /\ widgets.page = Pumpendetails /\ view.notice # None
    /\ \E a \in Range(session_state.alarm_data[1]) :
          /\ a.id = view.notice /\ a.pumpe = widgets.selected_pump
          /\ a.status = "Offen" /\ a.prioritaet \in Range(priorities)

\* C12 (SpecUrgency): the status is defined for every integer due date and is
\* Überfällig (overdue) below 0, Dringend (urgent) from 0 to 6 and Geplant
\* (planned) from 7 on; in particular -1 is overdue, 0 and 6 are urgent and 7
\* is planned.
C12_StatusByDueDate ==
    /\ pc = "apply" => ENABLED ApplyStatus
    /\ (pc = "idle" /\ rec # None) =>
          /\ view.maintenance # None
          /\ Len(view.maintenance[1].table) = 1
          /\ LET x == rec[1].naechste_wartung
                 label == view.maintenance[1].table[1].Status
             IN /\ label \in {"Überfällig", "Dringend", "Geplant"}
                /\ label = "Überfällig" <=> x < 0
                /\ label = "Dringend" <=> (0 <= x /\ x < 7)
                /\ label = "Geplant" <=> x >= 7
                /\ x = 0 - 1 => label = "Überfällig"
                /\ x \in {0, 6} => label = "Dringend"
                /\ x = 7 => label = "Geplant"

\* C12 witness: the due date 7 has been given its status.
C12_Witness ==
    /\ pc = "idle" /\ rec # None /\ rec[1].naechste_wartung = 7
    /\ view.maintenance # None
    /\ view.maintenance[1].table[1].Status = "Geplant"

\* C13 (SpecSlot): every generated alarm's recommendation is determined by its
\* priority: "Sofortige Inspektion erforderlich" exactly when the priority is
\* Hoch, "Überwachung fortsetzen" when it is Mittel or Niedrig.
C13_EmpfehlungByPrioritaet ==
    (rec # None /\ IsAlarmRecord(rec[1])) =>
        /\ rec[1].prioritaet \in {"Hoch", "Mittel", "Niedrig"}
        /\ rec[1].empfehlung = "Sofortige Inspektion erforderlich"
              <=> rec[1].prioritaet = "Hoch"
        /\ rec[1].empfehlung = "Überwachung fortsetzen"
              <=> rec[1].prioritaet \in {"Mittel", "Niedrig"}

\* C13 witness: a high-priority alarm that is not open.
C13_Witness ==
    /\ rec # None /\ IsAlarmRecord(rec[1])
    /\ rec[1].prioritaet = "Hoch" /\ rec[1].status = "Behoben"
    /\ rec[1].empfehlung = "Sofortige Inspektion erforderlich"

\* The pumpe values of the records the loop of generate_alarm_data can build,
\* over all its draws.
AlarmPumpIds == {AlarmRecord(i, d, 0).pumpe : i \in AlarmLoop, d \in AlarmDraws}

\* C14 (Spec): every alarm the generator can build has a pumpe among
\* P-001..P-010, and in every state of a session each alarm's pumpe is the id of
\* a record of the session's fleet, so no alarm refers to a pump that does not
\* exist.
C14_AlarmPumpExists ==
    /\ AlarmPumpIds \subseteq Range(ExpectedPumpIds)
    /\ Loaded =>
          \A a \in Range(session_state.alarm_data[1]) :
              /\ a.pumpe \in AlarmPumpIds
              /\ \E r \in Range(session_state.pump_data[1]) : r.id = a.pumpe

\* C14 witness: a session with alarms of the first and of the last pump of the
\* fleet.
C14_Witness ==
    /\ Loaded
    /\ \E a, b \in Range(session_state.alarm_data[1]) :
          /\ a.pumpe = session_state.pump_data[1][1].id
          /\ b.pumpe = session_state.pump_data[1][10].id
          /\ b.pumpe = <<"P", "-", "0", "1", "0">>

\* The rows of the maintenance table that carry the label.
Labelled(table, label) == Len(SelectSeq(table, LAMBDA r : r.Status = label))

\* C15 (SpecPage): in Wartungsplanung the three metrics agree with the labels
\* of the table: overdue counts the rows labelled Überfällig, "this week" the
\* rows labelled Dringend and planned the rows labelled Geplant.
C15_MetricsAgreeWithLabels ==
    (pc = "idle" /\ view.maintenance # None) =>
        /\ Len(view.maintenance[1].table) = Len(filtered_data)
        /\ view.maintenance[1].overdue = Labelled(view.maintenance[1].table, "Überfällig")
        /\ view.maintenance[1].urgent = Labelled(view.maintenance[1].table, "Dringend")
        /\ view.maintenance[1].planned = Labelled(view.maintenance[1].table, "Geplant")

\* C16 (SpecPage): whenever filtering has completed on Pumpendetails, the page
\* is rendered without exception and the selected pump is a record of the
\* filtered fleet.
C16_DetailPageRenders ==
    (pc = "idle" /\ widgets.page = Pumpendetails /\ raised # ReError) =>
        /\ raised = NoError
        /\ widgets.selected_pump # None
        /\ \E r \in Range(filtered_data) : r.id = widgets.selected_pump

====
